---- MODULE Spec2Model ----
(***************************************************************************)
(* Model of the emergencies cache of src/app/api/emergencies/route.ts:     *)
(* the module-level state (cachedData, lastFetchTime,                      *)
(* lastSuccessfulFetchTime, isRetryingUpstream), the GET handler and the   *)
(* background retry retryUpstreamAPI.  Each await of a network call is a   *)
(* suspension point: the code between two awaits is one atomic action.     *)
(* Times are milliseconds, as Date.now() returns them.                     *)
(***************************************************************************)
EXTENDS Integers, Sequences, FiniteSets, Bags, TLC

\* ---------------------------------------------------------------- bounds
\* Number of GET requests that may be in progress at once.
MaxRequests == 2
\* Longest record list an upstream or blob payload carries.
MaxRecords == 1
\* Most setTimeout(retryUpstreamAPI) timers pending at once.
MaxTimers == 2
\* Number of GET calls the model follows.
MaxCalls == 2
\* Number of clock steps of TickMs the model follows after StartTime.
MaxTicks == 6
\* Date.now() when the model begins to follow the process (any value
\* above RETRY_INTERVAL behaves alike; the real one is about 1.7e12).
StartTime == 1000000000
\* Granularity of the modelled clock, in milliseconds.
TickMs == 60000

\* ------------------------------------------------------ program constants
CACHE_DURATION == 5 * 60 * 1000
RETRY_INTERVAL == 5 * 60 * 1000
\* numberOfPeople above this is a data-entry error
MaxPeople == 3000
\* delay of the retry timer scheduled by GET
RetryDelay == 1000
\* AbortSignal.timeout of the upstream fetch
UpstreamTimeout == 30000
\* max-age of the Cache-Control header, non-degraded and degraded
MaxAgeFresh == 180
MaxAgeStale == 60

\* src/app/api/relief-actions/route.ts: the freshness window of the relief
\* actions cache and the max-age of its non-degraded responses
Relief_CACHE_DURATION == 10 * 60 * 1000
Relief_MaxAgeFresh == 600

VARIABLES
    cachedData,               \* NULL or [success, count, data]
    lastFetchTime,
    lastSuccessfulFetchTime,
    isRetryingUpstream,
    clock,                    \* Date.now()
    timers,                   \* bag of due times of setTimeout(retryUpstreamAPI, d)
    blob,                     \* content of 'emergencies.json' in the blob store, or NULL
    envSet,                   \* process.env.VICTIM_REPORTS_API is set
    inflight,                 \* bag of the GET calls suspended at an await
    resp,                     \* the response a GET returns in this step, if any
    retrying,                 \* bag of the retryUpstreamAPI calls suspended at an await
    calls,                    \* number of GET calls made since the initial state
    \* src/app/api/relief-actions/route.ts
    cachedReliefData,         \* NULL or the body upstream returned
    reliefLastFetchTime,      \* lastFetchTime of the relief actions route
    reliefEnvSet,             \* process.env.RELIEF_ACTIONS_API is set
    reliefInflight,           \* bag of the relief GET calls suspended at their fetch
    reliefResp,               \* the response a relief GET returns in this step, if any
    \* src/utils/geospatial.ts
    search,                   \* a call of findClosestReliefAction: its arguments and result
    measure                   \* a call of calculateHaversineDistance: its arguments and result

\* the state of the relief actions route
reliefVars == <<cachedReliefData, reliefLastFetchTime, reliefEnvSet, reliefInflight, reliefResp>>

\* the calls of the functions of geospatial.ts the model follows
geoVars == <<search, measure>>

vars == <<cachedData, lastFetchTime, lastSuccessfulFetchTime, isRetryingUpstream,
          clock, timers, blob, envSet, inflight, resp, retrying, calls, reliefVars, geoVars>>

cacheVars == <<cachedData, lastFetchTime, lastSuccessfulFetchTime>>

NULL == [null |-> TRUE]

\* ------------------------------------------------------------- payloads
People == {MaxPeople, MaxPeople + 1}

Emergency == [numberOfPeople : People]

RECURSIVE SeqsUpTo(_)
SeqsUpTo(n) ==
    IF n = 0 THEN {<<>>}
    ELSE LET S == SeqsUpTo(n - 1)
         IN  S \cup {Append(s, e) : s \in {t \in S : Len(t) = n - 1}, e \in Emergency}

Collections == SeqsUpTo(MaxRecords)

\* A JSON body as the upstream API or the blob may hold it: the count it
\* reports need not be the number of its records, the success flag may be
\* false and the data field may be missing or not an array.
Bodies ==
    [success : {TRUE}, isArray : {TRUE}, count : 0..(MaxRecords + 1), data : Collections]
    \cup [success : {FALSE}, isArray : {TRUE}, count : {0}, data : {<<>>}]
    \cup [success : {TRUE}, isArray : {FALSE}, count : {0}, data : {<<>>}]

\* Bodies whose count is the one the server computed from its records or
\* is off by one.
PlausibleBodies ==
    {b \in Bodies : b.isArray /\ b.success => b.count \in {Len(b.data), Len(b.data) + 1}}

\* What the network call to the upstream API can end in.
UpstreamOutcomes ==
    {[kind |-> "timeout"], [kind |-> "status"]}
    \cup {[kind |-> "body", body |-> b] : b \in PlausibleBodies}

RECURSIVE SelectSeq2(_, _)
SelectSeq2(s, i) ==
    IF i > Len(s) THEN <<>>
    ELSE IF s[i].numberOfPeople <= MaxPeople
         THEN <<s[i]>> \o SelectSeq2(s, i + 1)
         ELSE SelectSeq2(s, i + 1)

\* filterValidEmergencies that lets every record through
filterValidEmergencies_KeepsAll(data) ==
    [success |-> data.success, count |-> Len(data.data), data |-> data.data]

\* filterValidEmergencies that keeps the count the payload reported
filterValidEmergencies_KeepsCount(data) ==
    LET filteredData == SelectSeq2(data.data, 1)
    IN  [success |-> data.success, count |-> data.count, data |-> filteredData]

filterValidEmergencies(data) ==
    LET filteredData == SelectSeq2(data.data, 1)
    IN  [success |-> data.success, count |-> Len(filteredData), data |-> filteredData]

\* the structure check of both fetch functions
ValidStructure(b) == b.success /\ b.isArray

\* Result of fetchFromUpstreamAPI for a network outcome: the filtered
\* data, or the message of the Error it throws.
fetchFromUpstreamAPI(o) ==
    IF o.kind = "timeout" THEN [ok |-> FALSE, message |-> "The operation was aborted due to timeout"]
    ELSE IF o.kind = "status" THEN [ok |-> FALSE, message |-> "API responded with status: 500"]
    ELSE IF ~ValidStructure(o.body) THEN [ok |-> FALSE, message |-> "Invalid API response structure"]
    ELSE [ok |-> TRUE, data |-> filterValidEmergencies(o.body)]

EnvNotSetMessage == "VICTIM_REPORTS_API environment variable is not set"

\* Result of fetchFromBlobStorage: readable says whether head and the
\* download succeeded.  Every failure is rethrown with one message.
fetchFromBlobStorage(readable) ==
    IF readable /\ ValidStructure(blob)
    THEN [ok |-> TRUE, data |-> filterValidEmergencies(blob)]
    ELSE [ok |-> FALSE, message |-> "Failed to load emergency data from blob storage"]

\* CacheEntry that keeps the records of the snapshot it replaces
CacheEntry_Merging(data) ==
    IF cachedData = NULL
    THEN [success |-> data.success, count |-> data.count, data |-> data.data]
    ELSE [success |-> data.success, count |-> cachedData.count + data.count,
          data |-> cachedData.data \o data.data]

\* The cache entry both upstream-success paths and the blob path store.
CacheEntry(data) == [success |-> data.success, count |-> data.count, data |-> data.data]

\* ------------------------------------------------------------- requests
\* A GET suspended at an await: pc names the await, now is its local
\* constant, data the filtered upstream data it holds while it awaits
\* updateBlobStorage, apiError the message of the caught upstream error.
\* A local that is not set at that await is left out (NULL, "").
AwaitUpstream(now) == [pc |-> "upstream", now |-> now, data |-> NULL, apiError |-> ""]
AwaitBlob(now, apiError) == [pc |-> "blob", now |-> now, data |-> NULL, apiError |-> apiError]
AwaitWrite(now, data) == [pc |-> "write", now |-> now, data |-> data, apiError |-> ""]

\* What a GET returns: body is the NextResponse.json body (with status and
\* maxAge for the HTTP status and the max-age of the Cache-Control header),
\* up and dur record how the upstream fetch and the blob read of that GET
\* ended ("none" when it made none).
Sent(body, up, dur) == [body |-> body, up |-> up, dur |-> dur]

NoResponse == Sent(NULL, "none", "none")

\* A step of the emergencies route: the relief actions route, another
\* module with its own variables, returns nothing in it and keeps its state.
ElsewhereIdle ==
    /\ reliefResp' = NoResponse
    /\ UNCHANGED <<cachedReliefData, reliefLastFetchTime, reliefEnvSet, reliefInflight>>
    /\ UNCHANGED geoVars

\* no call of a function of geospatial.ts is followed
NoGeoCall ==
    /\ search = NULL
    /\ measure = NULL

\* A retryUpstreamAPI suspended at an await: since is Date.now() when it
\* started its upstream fetch, data what it hands to updateBlobStorage.
RetryAwaitUpstream(since) == [pc |-> "fetch", since |-> since, data |-> NULL]
RetryAwaitWrite(data) == [pc |-> "write", since |-> 0, data |-> data]

TimerCount == BagCardinality(timers)

setTimeout(delay) == timers (+) SetToBag({clock + delay})

\* the blob as the process finds it: a snapshot written before the filter
\* existed (a blob that is missing reads like one that is unreadable)
LegacyBlobs ==
    {b \in PlausibleBodies : /\ ValidStructure(b)
                             /\ Len(b.data) = MaxRecords
                             /\ b.count = Len(b.data)
                             /\ b.data[1].numberOfPeople > MaxPeople
                             /\ \A i \in 2..Len(b.data) : b.data[i].numberOfPeople <= MaxPeople}

\* the relief actions route as its module is loaded (lines 8-9)
ReliefLoaded ==
    /\ cachedReliefData = NULL
    /\ reliefLastFetchTime = 0
    /\ reliefInflight = EmptyBag
    /\ reliefResp = NoResponse

\* The process as it starts, RELIEF_ACTIONS_API configured.  Spec follows
\* the emergencies route alone: the relief actions route is never called
\* in it, so its environment plays no part there.
Init ==
    /\ ReliefLoaded
    /\ reliefEnvSet = TRUE
    /\ NoGeoCall
    /\ cachedData = NULL
    /\ lastFetchTime = 0
    /\ lastSuccessfulFetchTime = 0
    /\ isRetryingUpstream = FALSE
    /\ clock = StartTime
    /\ timers = EmptyBag
    /\ blob \in LegacyBlobs
    /\ envSet \in BOOLEAN
    /\ inflight = EmptyBag
    /\ resp = NoResponse
    /\ retrying = EmptyBag
    /\ calls = 0

\* ------------------------------------------------------------ responses
\* the NextResponse.json bodies of GET
MemoryResponse ==
    [status |-> 200, success |-> cachedData.success, count |-> cachedData.count,
     data |-> cachedData.data, cached |-> TRUE, lastUpdated |-> lastFetchTime,
     nextUpdate |-> lastFetchTime + CACHE_DURATION, cacheSource |-> "memory",
     maxAge |-> MaxAgeFresh]

\* lft is the module's lastFetchTime when the response is built
ApiResponse(data, lft) ==
    [status |-> 200, success |-> data.success, count |-> data.count,
     data |-> data.data, cached |-> FALSE, lastUpdated |-> lft,
     nextUpdate |-> lft + CACHE_DURATION, cacheSource |-> "api",
     maxAge |-> MaxAgeFresh]

BlobResponse(blobData, lft) ==
    [status |-> 200, success |-> blobData.success, count |-> blobData.count,
     data |-> blobData.data, cached |-> FALSE, lastUpdated |-> lft,
     nextUpdate |-> lft + CACHE_DURATION, cacheSource |-> "blob-fallback",
     maxAge |-> MaxAgeFresh]

\* StaleResponse that labels itself as a plain memory hit
StaleResponse_AsMemory ==
    [status |-> 200, success |-> cachedData.success, count |-> cachedData.count,
     data |-> cachedData.data, cached |-> TRUE, stale |-> TRUE,
     lastUpdated |-> lastFetchTime,
     error |-> "Using stale cached data due to API and blob storage errors",
     cacheSource |-> "memory", maxAge |-> MaxAgeStale]

\* StaleResponse without the stale flag
StaleResponse_Unflagged ==
    [status |-> 200, success |-> cachedData.success, count |-> cachedData.count,
     data |-> cachedData.data, cached |-> TRUE,
     lastUpdated |-> lastFetchTime,
     error |-> "Using stale cached data due to API and blob storage errors",
     cacheSource |-> "memory-stale", maxAge |-> MaxAgeStale]

StaleResponse ==
    [status |-> 200, success |-> cachedData.success, count |-> cachedData.count,
     data |-> cachedData.data, cached |-> TRUE, stale |-> TRUE,
     lastUpdated |-> lastFetchTime,
     error |-> "Using stale cached data due to API and blob storage errors",
     cacheSource |-> "memory-stale", maxAge |-> MaxAgeStale]

\* ErrorResponse that loses the cause of the upstream failure
ErrorResponse_UnknownCause(apiError, blobError) ==
    [status |-> 500,
     error |-> "Failed to load emergency data from API and blob storage",
     details |-> [apiError |-> "Unknown API error", blobError |-> blobError]]

ErrorResponse(apiError, blobError) ==
    [status |-> 500,
     error |-> "Failed to load emergency data from API and blob storage",
     details |-> [apiError |-> apiError, blobError |-> blobError]]

\* -------------------------------------------------------------- GET
\* ShouldScheduleRetry that measures the age of the snapshot
ShouldScheduleRetry_ByFetchTime(now) ==
    /\ cachedData # NULL
    /\ now - lastFetchTime > RETRY_INTERVAL
    /\ ~isRetryingUpstream

\* the test of line 172
ShouldScheduleRetry(now) ==
    /\ cachedData # NULL
    /\ now - lastSuccessfulFetchTime > RETRY_INTERVAL
    /\ ~isRetryingUpstream

\* IsFresh with the three minutes the comment of line 177 speaks of
IsFresh_ThreeMinutes(now) ==
    LET timeSinceLastFetch == IF cachedData # NULL THEN now - lastFetchTime ELSE 0
    IN  cachedData # NULL /\ timeSinceLastFetch < 3 * 60 * 1000

\* the test of line 178
IsFresh(now) ==
    LET timeSinceLastFetch == IF cachedData # NULL THEN now - lastFetchTime ELSE 0
    IN  cachedData # NULL /\ timeSinceLastFetch < CACHE_DURATION

\* MissRequest that reads the blob before it tries upstream
MissRequest_BlobFirst(now) == AwaitBlob(now, "")

\* The GET after a cache miss, at its first await: fetchFromUpstreamAPI
\* throws at once when the URL is not configured and GET goes on to the
\* blob, else GET waits for the upstream fetch.
MissRequest(now) ==
    IF envSet THEN AwaitUpstream(now) ELSE AwaitBlob(now, EnvNotSetMessage)

\* GET that awaits retryUpstreamAPI() where the code calls setTimeout
GET_AwaitsRetry ==
    /\ calls < MaxCalls
    /\ calls' = calls + 1
    /\ LET now == clock
       IN  IF ShouldScheduleRetry(now)
           THEN /\ BagCardinality(inflight) < MaxRequests
                /\ isRetryingUpstream' = TRUE
                /\ retrying' = retrying (+) SetToBag({RetryAwaitUpstream(clock)})
                /\ inflight' = inflight (+) SetToBag({[pc |-> "retry", now |-> now,
                                                       data |-> NULL, apiError |-> ""]})
                /\ resp' = NoResponse
                /\ timers' = timers
           ELSE /\ UNCHANGED <<isRetryingUpstream, retrying, timers>>
                /\ IF IsFresh(now)
                   THEN /\ resp' = Sent(MemoryResponse, "none", "none")
                        /\ inflight' = inflight
                   ELSE /\ BagCardinality(inflight) < MaxRequests
                        /\ resp' = NoResponse
                        /\ inflight' = inflight (+) SetToBag({MissRequest(now)})
    /\ UNCHANGED <<cacheVars, clock, blob, envSet>>
    /\ ElsewhereIdle

\* GET up to its first await or its return from memory (lines 166-199)
GET ==
    /\ calls < MaxCalls
    /\ calls' = calls + 1
    /\ LET now == clock
       IN  /\ IF ShouldScheduleRetry(now)
              THEN /\ TimerCount < MaxTimers
                   /\ timers' = setTimeout(RetryDelay)
              ELSE timers' = timers
           /\ IF IsFresh(now)
              THEN /\ resp' = Sent(MemoryResponse, "none", "none")
                   /\ inflight' = inflight
              ELSE /\ BagCardinality(inflight) < MaxRequests
                   /\ resp' = NoResponse
                   /\ inflight' = inflight (+) SetToBag({MissRequest(now)})
    /\ UNCHANGED <<cacheVars, isRetryingUpstream, clock, blob, envSet, retrying>>
    /\ ElsewhereIdle

\* q leaves its await and goes on to the await n
Resume(q, n) == (inflight (-) SetToBag({q})) (+) SetToBag({n})

\* q returns
Return(q) == inflight (-) SetToBag({q})

\* the upstream fetch of GET returned valid data (lines 199-213)
GET_UpstreamOk(q) ==
    /\ q.pc = "upstream"
    /\ \E o \in UpstreamOutcomes :
        LET res == fetchFromUpstreamAPI(o)
        IN  /\ res.ok
            /\ cachedData' = CacheEntry(res.data)
            /\ lastFetchTime' = q.now
            /\ lastSuccessfulFetchTime' = q.now
            /\ inflight' = Resume(q, AwaitWrite(q.now, res.data))
    /\ resp' = NoResponse
    /\ UNCHANGED <<isRetryingUpstream, clock, timers, blob, envSet, retrying, calls>>
    /\ ElsewhereIdle

\* the upstream fetch of GET threw (lines 230-236)
GET_UpstreamFail(q) ==
    /\ q.pc = "upstream"
    /\ \E o \in UpstreamOutcomes :
        LET res == fetchFromUpstreamAPI(o)
        IN  /\ ~res.ok
            /\ inflight' = Resume(q, AwaitBlob(q.now, res.message))
    /\ resp' = NoResponse
    /\ UNCHANGED <<cacheVars, isRetryingUpstream, clock, timers, blob, envSet, retrying, calls>>
    /\ ElsewhereIdle

\* the blob holds what JSON.stringify(data) wrote
BlobBody(data) == [success |-> data.success, isArray |-> TRUE,
                   count |-> data.count, data |-> data.data]

\* updateBlobStorage: put succeeded or threw; the error is swallowed
updateBlobStorage(data, putOk) == IF putOk THEN BlobBody(data) ELSE blob

\* GET_WriteDone with an updateBlobStorage that lets the error of put
\* escape: the catch block of GET takes it for an upstream failure
GET_WriteDone_Propagates(q) ==
    /\ q.pc = "write"
    /\ \E putOk \in BOOLEAN :
        /\ blob' = updateBlobStorage(q.data, putOk)
        /\ IF putOk
           THEN /\ resp' = Sent(ApiResponse(q.data, lastFetchTime), "ok", "none")
                /\ inflight' = Return(q)
           ELSE /\ resp' = NoResponse
                /\ inflight' = Resume(q, AwaitBlob(lastFetchTime, "Failed to update blob storage"))
    /\ UNCHANGED <<cacheVars, isRetryingUpstream, clock, timers, envSet, retrying, calls>>
    /\ ElsewhereIdle

\* updateBlobStorage returned to GET (lines 213-228)
GET_WriteDone(q) ==
    /\ q.pc = "write"
    /\ \E putOk \in BOOLEAN : blob' = updateBlobStorage(q.data, putOk)
    /\ resp' = Sent(ApiResponse(q.data, lastFetchTime), "ok", "none")
    /\ inflight' = Return(q)
    /\ UNCHANGED <<cacheVars, isRetryingUpstream, clock, timers, envSet, retrying, calls>>
    /\ ElsewhereIdle

\* GET_BlobOk that takes the blob read for an upstream success
GET_BlobOk_CountsAsSuccess(q) ==
    /\ q.pc = "blob"
    /\ \E readable \in BOOLEAN :
        LET res == fetchFromBlobStorage(readable)
        IN  /\ res.ok
            /\ cachedData' = CacheEntry(res.data)
            /\ lastFetchTime' = q.now
            /\ lastSuccessfulFetchTime' = q.now
            /\ TimerCount < MaxTimers
            /\ timers' = setTimeout(RETRY_INTERVAL)
            /\ resp' = Sent(BlobResponse(res.data, q.now), "fail", "ok")
            /\ inflight' = Return(q)
    /\ UNCHANGED <<isRetryingUpstream, clock, blob, envSet, retrying, calls>>
    /\ ElsewhereIdle

\* fetchFromBlobStorage returned data (lines 236-262)
GET_BlobOk(q) ==
    /\ q.pc = "blob"
    /\ \E readable \in BOOLEAN :
        LET res == fetchFromBlobStorage(readable)
        IN  /\ res.ok
            /\ cachedData' = CacheEntry(res.data)
            /\ lastFetchTime' = q.now
            /\ TimerCount < MaxTimers
            /\ timers' = setTimeout(RETRY_INTERVAL)
            /\ resp' = Sent(BlobResponse(res.data, q.now), "fail", "ok")
            /\ inflight' = Return(q)
    /\ UNCHANGED <<lastSuccessfulFetchTime, isRetryingUpstream, clock, blob, envSet, retrying, calls>>
    /\ ElsewhereIdle

\* GET_BlobFail that gives up the snapshot when every source has failed
GET_BlobFail_DropsSnapshot(q) ==
    /\ q.pc = "blob"
    /\ \E readable \in BOOLEAN :
        LET res == fetchFromBlobStorage(readable)
        IN  /\ ~res.ok
            /\ resp' = Sent(ErrorResponse(q.apiError, res.message), "fail", "fail")
            /\ inflight' = Return(q)
    /\ cachedData' = NULL
    /\ UNCHANGED <<lastFetchTime, lastSuccessfulFetchTime, isRetryingUpstream, clock,
                   timers, blob, envSet, retrying, calls>>
    /\ ElsewhereIdle

\* fetchFromBlobStorage threw (lines 264-297)
GET_BlobFail(q) ==
    /\ q.pc = "blob"
    /\ \E readable \in BOOLEAN :
        LET res == fetchFromBlobStorage(readable)
        IN  /\ ~res.ok
            /\ resp' = Sent(IF cachedData # NULL THEN StaleResponse
                             ELSE ErrorResponse(q.apiError, res.message),
                             "fail", "fail")
            /\ inflight' = Return(q)
    /\ UNCHANGED <<cacheVars, isRetryingUpstream, clock, timers, blob, envSet, retrying, calls>>
    /\ ElsewhereIdle

\* ------------------------------------------------- retryUpstreamAPI
\* retryUpstreamAPI without the test of isRetryingUpstream
retryUpstreamAPI_Unguarded ==
    /\ \E t \in BagToSet(timers) :
        /\ t <= clock
        /\ LET rest == timers (-) SetToBag({t})
           IN  IF envSet
               THEN /\ timers' = rest
                    /\ isRetryingUpstream' = TRUE
                    /\ retrying' = retrying (+) SetToBag({[pc |-> "fetch", since |-> clock, data |-> NULL]})
               ELSE /\ timers' = rest (+) SetToBag({clock + RETRY_INTERVAL})
                    /\ isRetryingUpstream' = FALSE
                    /\ UNCHANGED retrying
    /\ resp' = NoResponse
    /\ UNCHANGED <<cacheVars, clock, blob, envSet, inflight, calls>>
    /\ ElsewhereIdle

\* A pending timer fires and calls retryUpstreamAPI, which runs to its
\* first await (lines 130-140) or, with no URL configured, through its
\* catch block to its end (lines 157-163).
retryUpstreamAPI ==
    /\ \E t \in BagToSet(timers) :
        /\ t <= clock
        /\ LET rest == timers (-) SetToBag({t})
           IN  IF isRetryingUpstream
               THEN /\ timers' = rest
                    /\ UNCHANGED <<isRetryingUpstream, retrying>>
               ELSE IF envSet
               THEN /\ timers' = rest
                    /\ isRetryingUpstream' = TRUE
                    /\ retrying' = retrying (+) SetToBag({RetryAwaitUpstream(clock)})
               ELSE /\ timers' = rest (+) SetToBag({clock + RETRY_INTERVAL})
                    /\ isRetryingUpstream' = FALSE
                    /\ UNCHANGED retrying
    /\ resp' = NoResponse
    /\ UNCHANGED <<cacheVars, clock, blob, envSet, inflight, calls>>
    /\ ElsewhereIdle

\* the upstream fetch of the retry x returned valid data (lines 140-154)
Retry_UpstreamOk(x) ==
    /\ x.pc = "fetch"
    /\ \E o \in UpstreamOutcomes :
        LET res == fetchFromUpstreamAPI(o)
        IN  /\ res.ok
            /\ cachedData' = CacheEntry(res.data)
            /\ lastFetchTime' = clock
            /\ lastSuccessfulFetchTime' = clock
            /\ retrying' = (retrying (-) SetToBag({x})) (+) SetToBag({RetryAwaitWrite(res.data)})
    /\ resp' = NoResponse
    /\ UNCHANGED <<isRetryingUpstream, clock, timers, blob, envSet, inflight, calls>>
    /\ ElsewhereIdle

\* updateBlobStorage returned to the retry x (lines 154-156)
Retry_WriteDone(x) ==
    /\ x.pc = "write"
    /\ \E putOk \in BOOLEAN : blob' = updateBlobStorage(x.data, putOk)
    /\ isRetryingUpstream' = FALSE
    /\ retrying' = retrying (-) SetToBag({x})
    /\ resp' = NoResponse
    /\ UNCHANGED <<cacheVars, clock, timers, envSet, inflight, calls>>
    /\ ElsewhereIdle

\* Retry_UpstreamFail that leaves isRetryingUpstream set
Retry_UpstreamFail_KeepsFlag(x) ==
    /\ x.pc = "fetch"
    /\ \E o \in UpstreamOutcomes : ~fetchFromUpstreamAPI(o).ok
    /\ TimerCount < MaxTimers
    /\ timers' = setTimeout(RETRY_INTERVAL)
    /\ retrying' = retrying (-) SetToBag({x})
    /\ resp' = NoResponse
    /\ UNCHANGED <<cacheVars, isRetryingUpstream, clock, blob, envSet, inflight, calls>>
    /\ ElsewhereIdle

\* the upstream fetch of the retry x threw (lines 157-163)
Retry_UpstreamFail(x) ==
    /\ x.pc = "fetch"
    /\ \E o \in UpstreamOutcomes : ~fetchFromUpstreamAPI(o).ok
    /\ isRetryingUpstream' = FALSE
    /\ TimerCount < MaxTimers
    /\ timers' = setTimeout(RETRY_INTERVAL)
    /\ retrying' = retrying (-) SetToBag({x})
    /\ resp' = NoResponse
    /\ UNCHANGED <<cacheVars, clock, blob, envSet, inflight, calls>>
    /\ ElsewhereIdle

\* ------------------------------------------------------------- clock
\* Time passes.  A timer fires when it is due: the clock does not move
\* on past a timer that is due and has not fired.  An upstream fetch is
\* aborted UpstreamTimeout after it began (line 106): the clock does not
\* move on past that moment while the fetch is pending.  The calls to the
\* blob store carry no timeout.  The fetch of the relief actions route is
\* aborted after the same 30 seconds (relief-actions/route.ts line 29).
Tick ==
    /\ clock < StartTime + MaxTicks * TickMs
    /\ \A t \in BagToSet(timers) : t > clock
    /\ \A q \in BagToSet(inflight) : q.pc = "upstream" => clock < q.now + UpstreamTimeout
    /\ \A x \in BagToSet(retrying) : x.pc = "fetch" => clock < x.since + UpstreamTimeout
    /\ \A r \in BagToSet(reliefInflight) : clock < r.now + UpstreamTimeout
    /\ clock' = clock + TickMs
    /\ resp' = NoResponse
    /\ UNCHANGED <<cacheVars, isRetryingUpstream, timers, blob, envSet, inflight, retrying, calls>>
    /\ ElsewhereIdle

Next ==
    \/ GET
    \/ \E q \in BagToSet(inflight) : GET_UpstreamOk(q)
    \/ \E q \in BagToSet(inflight) : GET_UpstreamFail(q)
    \/ \E q \in BagToSet(inflight) : GET_WriteDone(q)
    \/ \E q \in BagToSet(inflight) : GET_BlobOk(q)
    \/ \E q \in BagToSet(inflight) : GET_BlobFail(q)
    \/ retryUpstreamAPI
    \/ \E x \in BagToSet(retrying) : Retry_UpstreamOk(x)
    \/ \E x \in BagToSet(retrying) : Retry_WriteDone(x)
    \/ \E x \in BagToSet(retrying) : Retry_UpstreamFail(x)
    \/ Tick

Spec == Init /\ [][Next]_vars

\* ------------------------------------------------------- scheduling
\* What the runtime guarantees whatever the remote endpoints do: time
\* passes, a timer that is due fires, and a fetch that carries
\* AbortSignal.timeout (line 106) settles, by its abort at the latest, and
\* its continuation runs.  vercelBlob.head, fetch(downloadUrl) (lines
\* 56-63) and vercelBlob.put (lines 38-43) are given no signal and no
\* timeout: nothing makes them settle when the blob store does not answer.
UpstreamSettles ==
    \/ \E q \in BagToSet(inflight) : GET_UpstreamOk(q) \/ GET_UpstreamFail(q)
    \/ \E x \in BagToSet(retrying) : Retry_UpstreamOk(x) \/ Retry_UpstreamFail(x)

Fairness ==
    /\ WF_vars(Tick)
    /\ WF_vars(retryUpstreamAPI)
    /\ WF_vars(UpstreamSettles)

SpecLive == Init /\ [][Next]_vars /\ Fairness

\* ------------------------------------------------- an aged process
\* The process some minutes into its life, at the moment a GET has
\* answered from the blob (lines 236-262): an earlier GET, called at
\* StartTime, got the data from upstream and stamped both timestamps with
\* its start time; the GET that now answers was called at clock, either
\* while the first was still waiting for upstream (one tick later) or
\* after the snapshot had expired (when it scheduled a retry at line 174
\* if the upstream success was more than RETRY_INTERVAL back), and found
\* upstream failing.  The blob is the legacy one or what the first GET
\* wrote.
AgedInit ==
    /\ clock \in {StartTime + TickMs} \cup
                 {StartTime + k * TickMs : k \in {j \in 1..MaxTicks : j * TickMs >= CACHE_DURATION}}
    /\ blob \in LegacyBlobs \cup {BlobBody(filterValidEmergencies(b)) :
                                    b \in {c \in PlausibleBodies : ValidStructure(c)}}
    /\ cachedData = CacheEntry(filterValidEmergencies(blob))
    /\ lastFetchTime = clock
    /\ lastSuccessfulFetchTime = StartTime
    /\ isRetryingUpstream = FALSE
    /\ timers = IF clock - StartTime > RETRY_INTERVAL
                THEN SetToBag({clock + RetryDelay}) (+) SetToBag({clock + RETRY_INTERVAL})
                ELSE SetToBag({clock + RETRY_INTERVAL})
    /\ envSet = TRUE
    /\ inflight = EmptyBag
    /\ resp = Sent(BlobResponse(filterValidEmergencies(blob), clock), "fail", "ok")
    /\ retrying = EmptyBag
    /\ calls = 0
    /\ ReliefLoaded
    /\ reliefEnvSet = TRUE
    /\ NoGeoCall

SpecAged == AgedInit /\ [][Next]_vars

\* ---------------------------------------------- relief actions route
\* src/app/api/relief-actions/route.ts: a second route module with its own
\* cachedReliefData and lastFetchTime, no blob store and no retry.
ReliefAction == [DonationID : {1}]

RECURSIVE ReliefSeqsUpTo(_)
ReliefSeqsUpTo(n) ==
    IF n = 0 THEN {<<>>}
    ELSE LET S == ReliefSeqsUpTo(n - 1)
         IN  S \cup {Append(t, e) : t \in {u \in S : Len(u) = n - 1}, e \in ReliefAction}

\* the bodies the relief upstream may send, their count right or off by one
ReliefBodies ==
    {b \in [success : {TRUE}, isArray : {TRUE}, count : 0..(MaxRecords + 1),
            data : ReliefSeqsUpTo(MaxRecords)] : b.count \in {Len(b.data), Len(b.data) + 1}}
    \cup [success : {FALSE}, isArray : {TRUE}, count : {0}, data : {<<>>}]
    \cup [success : {TRUE}, isArray : {FALSE}, count : {0}, data : {<<>>}]

ReliefOutcomes ==
    {[kind |-> "timeout"], [kind |-> "status"]}
    \cup {[kind |-> "body", body |-> b] : b \in ReliefBodies}

\* Result of fetchReliefActionsFromAPI for a network outcome: the body as
\* upstream sent it, or the message of the Error it throws.
fetchReliefActionsFromAPI(o) ==
    IF o.kind = "timeout" THEN [ok |-> FALSE, message |-> "The operation was aborted due to timeout"]
    ELSE IF o.kind = "status" THEN [ok |-> FALSE, message |-> "Relief actions API responded with status: 500"]
    ELSE IF ~(o.body.success /\ o.body.isArray)
         THEN [ok |-> FALSE, message |-> "Invalid relief actions API response structure"]
    ELSE [ok |-> TRUE, data |-> [success |-> o.body.success, count |-> o.body.count,
                                 data |-> o.body.data]]

ReliefEnvNotSetMessage == "RELIEF_ACTIONS_API environment variable is not set"

ReliefMemoryResponse ==
    [status |-> 200, success |-> cachedReliefData.success, count |-> cachedReliefData.count,
     data |-> cachedReliefData.data, cached |-> TRUE, lastUpdated |-> reliefLastFetchTime,
     nextUpdate |-> reliefLastFetchTime + Relief_CACHE_DURATION, cacheSource |-> "memory",
     maxAge |-> Relief_MaxAgeFresh]

ReliefApiResponse(data, lft) ==
    [status |-> 200, success |-> data.success, count |-> data.count,
     data |-> data.data, cached |-> FALSE, lastUpdated |-> lft,
     nextUpdate |-> lft + Relief_CACHE_DURATION, cacheSource |-> "api",
     maxAge |-> Relief_MaxAgeFresh]

ReliefStaleResponse ==
    [status |-> 200, success |-> cachedReliefData.success, count |-> cachedReliefData.count,
     data |-> cachedReliefData.data, cached |-> TRUE, stale |-> TRUE,
     lastUpdated |-> reliefLastFetchTime,
     error |-> "Using stale cached data due to API error",
     cacheSource |-> "memory-stale", maxAge |-> MaxAgeStale]

ReliefErrorResponse(message) ==
    [status |-> 500, error |-> "Failed to load relief actions data", details |-> message]

\* the catch block of the relief GET (lines 109-139)
ReliefFailure(message) ==
    IF cachedReliefData # NULL THEN ReliefStaleResponse ELSE ReliefErrorResponse(message)

\* the test of line 65
ReliefIsFresh(now) ==
    LET timeSinceLastFetch == IF cachedReliefData # NULL THEN now - reliefLastFetchTime ELSE 0
    IN  cachedReliefData # NULL /\ timeSinceLastFetch < Relief_CACHE_DURATION

\* A step of the relief actions route: the emergencies route returns
\* nothing in it and keeps its state.
EmergenciesIdle ==
    /\ resp' = NoResponse
    /\ UNCHANGED <<cacheVars, isRetryingUpstream, timers, blob, envSet, inflight, retrying>>
    /\ UNCHANGED geoVars

\* the relief GET up to its await, or to its return when it answers from
\* memory or fetchReliefActionsFromAPI throws at once (lines 60-86)
Relief_GET ==
    /\ calls < MaxCalls
    /\ calls' = calls + 1
    /\ LET now == clock
       IN  IF ReliefIsFresh(now)
           THEN /\ reliefResp' = Sent(ReliefMemoryResponse, "none", "none")
                /\ reliefInflight' = reliefInflight
           ELSE IF ~reliefEnvSet
           THEN /\ reliefResp' = Sent(ReliefFailure(ReliefEnvNotSetMessage), "fail", "none")
                /\ reliefInflight' = reliefInflight
           ELSE /\ BagCardinality(reliefInflight) < MaxRequests
                /\ reliefResp' = NoResponse
                /\ reliefInflight' = reliefInflight (+) SetToBag({[now |-> now]})
    /\ UNCHANGED <<cachedReliefData, reliefLastFetchTime, reliefEnvSet, clock>>
    /\ EmergenciesIdle

\* Relief_UpstreamOk that stamps the lastFetchTime of the emergencies
\* route, as if the two routes shared the variable of that name
Relief_UpstreamOk_SharedClock(r) ==
    /\ \E o \in ReliefOutcomes :
        LET res == fetchReliefActionsFromAPI(o)
        IN  /\ res.ok
            /\ cachedReliefData' = res.data
            /\ lastFetchTime' = r.now
            /\ reliefResp' = Sent(ReliefApiResponse(res.data, r.now), "ok", "none")
    /\ reliefInflight' = reliefInflight (-) SetToBag({r})
    /\ resp' = NoResponse
    /\ UNCHANGED <<reliefLastFetchTime, reliefEnvSet, clock, calls, cachedData,
                   lastSuccessfulFetchTime, isRetryingUpstream, timers, blob, envSet,
                   inflight, retrying, geoVars>>

\* the relief upstream fetch returned valid data (lines 86-107)
Relief_UpstreamOk(r) ==
    /\ \E o \in ReliefOutcomes :
        LET res == fetchReliefActionsFromAPI(o)
        IN  /\ res.ok
            /\ cachedReliefData' = res.data
            /\ reliefLastFetchTime' = r.now
            /\ reliefResp' = Sent(ReliefApiResponse(res.data, r.now), "ok", "none")
    /\ reliefInflight' = reliefInflight (-) SetToBag({r})
    /\ UNCHANGED <<reliefEnvSet, clock, calls>>
    /\ EmergenciesIdle

\* Relief_UpstreamFail that schedules a retry as the emergencies route does
Relief_UpstreamFail_SchedulesRetry(r) ==
    /\ \E o \in ReliefOutcomes :
        LET res == fetchReliefActionsFromAPI(o)
        IN  /\ ~res.ok
            /\ reliefResp' = Sent(ReliefFailure(res.message), "fail", "none")
    /\ reliefInflight' = reliefInflight (-) SetToBag({r})
    /\ timers' = setTimeout(RETRY_INTERVAL)
    /\ resp' = NoResponse
    /\ UNCHANGED <<cachedReliefData, reliefLastFetchTime, reliefEnvSet, clock, calls,
                   cacheVars, isRetryingUpstream, blob, envSet, inflight, retrying, geoVars>>

\* the relief upstream fetch threw (lines 109-139)
Relief_UpstreamFail(r) ==
    /\ \E o \in ReliefOutcomes :
        LET res == fetchReliefActionsFromAPI(o)
        IN  /\ ~res.ok
            /\ reliefResp' = Sent(ReliefFailure(res.message), "fail", "none")
    /\ reliefInflight' = reliefInflight (-) SetToBag({r})
    /\ UNCHANGED <<cachedReliefData, reliefLastFetchTime, reliefEnvSet, clock, calls>>
    /\ EmergenciesIdle

ReliefNext ==
    \/ Relief_GET
    \/ \E r \in BagToSet(reliefInflight) : Relief_UpstreamOk(r)
    \/ \E r \in BagToSet(reliefInflight) : Relief_UpstreamFail(r)

\* The relief actions route alone, from the load of its module or from a
\* snapshot stored ReliefAge before StartTime, with or without its URL.
ReliefAge == 8 * TickMs

InitRelief ==
    /\ \/ ReliefLoaded
       \/ /\ cachedReliefData \in {d \in {fetchReliefActionsFromAPI(o).data :
                                      o \in {x \in ReliefOutcomes : fetchReliefActionsFromAPI(x).ok}} :
                                    d.count = Len(d.data)}
          /\ reliefLastFetchTime = StartTime - ReliefAge
          /\ reliefInflight = EmptyBag
          /\ reliefResp = NoResponse
    /\ reliefEnvSet \in BOOLEAN
    /\ cachedData = NULL
    /\ lastFetchTime = 0
    /\ lastSuccessfulFetchTime = 0
    /\ isRetryingUpstream = FALSE
    /\ clock = StartTime
    /\ timers = EmptyBag
    /\ blob = NULL
    /\ envSet = TRUE
    /\ inflight = EmptyBag
    /\ resp = NoResponse
    /\ retrying = EmptyBag
    /\ calls = 0
    /\ NoGeoCall

NextRelief == ReliefNext \/ Tick

SpecRelief == InitRelief /\ [][NextRelief]_vars

\* Both routes in one process.  So far only the relief actions route has
\* been called: it holds a snapshot it stored ReliefAge ago; the module of
\* the emergencies route is loaded now, HeadStart after StartTime.
HeadStart == 3 * TickMs

InitBoth ==
    /\ clock = StartTime + HeadStart
    /\ cachedReliefData \in {d \in {fetchReliefActionsFromAPI(o).data :
                                      o \in {x \in ReliefOutcomes : fetchReliefActionsFromAPI(x).ok}} :
                                Len(d.data) = MaxRecords /\ d.count = Len(d.data)}
    /\ reliefLastFetchTime = clock - ReliefAge
    /\ reliefEnvSet = TRUE
    /\ reliefInflight = EmptyBag
    /\ reliefResp = NoResponse
    /\ cachedData = NULL
    /\ lastFetchTime = 0
    /\ lastSuccessfulFetchTime = 0
    /\ isRetryingUpstream = FALSE
    /\ timers = EmptyBag
    /\ blob \in LegacyBlobs
    /\ envSet \in BOOLEAN
    /\ inflight = EmptyBag
    /\ resp = NoResponse
    /\ retrying = EmptyBag
    /\ calls = 0
    /\ NoGeoCall

NextBoth == Next \/ ReliefNext

SpecBoth == InitBoth /\ [][NextBoth]_vars


\* ------------------------------------------------------- geospatial.ts
(***************************************************************************)
(* src/utils/geospatial.ts.  JavaScript numbers are modelled in fixed      *)
(* point: degrees in thousandths of a degree, angles in units of 1e-7      *)
(* radian, distances in metres (thousandths of the kilometres the code     *)
(* returns).  A number is a record: a finite value, NaN or an infinity.    *)
(* Rounding is towards zero, which like the IEEE 754 rounding of the code  *)
(* commutes with negation.  TLC reports an overflow of its 32-bit integers *)
(* as an error, so the inputs below stay within about 0.1 degree of each   *)
(* other and within 12 degrees of the equator (Cebu is at 10 N, 123 E).    *)
(***************************************************************************)
\* Longest reliefActions array passed to findClosestReliefAction.
MaxCandidates == 2

Num(v) == [k |-> "num", v |-> v]
NaN == [k |-> "nan", v |-> 0]
Infinity == [k |-> "inf", v |-> 1]
NegInfinity == [k |-> "inf", v |-> -1]

isNaN(x) == x.k = "nan"

isFiniteNumber(x) == x.k = "num"

\* x / y rounded towards zero
Div(x, y) == IF x >= 0 THEN x \div y ELSE -((-x) \div y)

\* x <= y and x < y on numbers: false when either side is NaN
Leq(x, y) ==
    /\ ~isNaN(x)
    /\ ~isNaN(y)
    /\ \/ x.k = "num" /\ y.k = "num" /\ x.v <= y.v
       \/ x.k = "num" /\ y = Infinity
       \/ x = NegInfinity
       \/ x = y

Lt(x, y) == Leq(x, y) /\ x # y

\* parseFloat: strings are sequences of characters
DecimalDigits == {"0", "1", "2", "3", "4", "5", "6", "7", "8", "9"}

DigitValue(c) ==
    CASE c = "0" -> 0 [] c = "1" -> 1 [] c = "2" -> 2 [] c = "3" -> 3
      [] c = "4" -> 4 [] c = "5" -> 5 [] c = "6" -> 6 [] c = "7" -> 7
      [] c = "8" -> 8 [] c = "9" -> 9

WhiteSpace == {" "}

RECURSIVE SkipWhiteSpace(_, _)
SkipWhiteSpace(s, i) ==
    IF i <= Len(s) /\ s[i] \in WhiteSpace THEN SkipWhiteSpace(s, i + 1) ELSE i

\* the index after the run of digits that begins at i
RECURSIVE DigitsEnd(_, _)
DigitsEnd(s, i) ==
    IF i <= Len(s) /\ s[i] \in DecimalDigits THEN DigitsEnd(s, i + 1) ELSE i

\* the value of the digits s[i] .. s[j - 1]
RECURSIVE DigitsValue(_, _, _)
DigitsValue(s, i, j) ==
    IF j <= i THEN 0 ELSE 10 * DigitsValue(s, i, j - 1) + DigitValue(s[j - 1])

\* the thousandths that the fraction digits s[i] .. s[j - 1] denote
Thousandths(s, i, j) ==
    LET d(n) == IF i + n < j THEN DigitValue(s[i + n]) ELSE 0
    IN  100 * d(0) + 10 * d(1) + d(2)

InfinityLiteral == <<"I", "n", "f", "i", "n", "i", "t", "y">>

\* parseFloat(string): leading white space is skipped and the longest prefix
\* that is a decimal literal is converted; NaN when there is none.  (The
\* exponent part of a literal is not modelled: no input below has one.)
parseFloat(s) ==
    LET start    == SkipWhiteSpace(s, 1)
        signed   == start <= Len(s) /\ s[start] \in {"+", "-"}
        negative == signed /\ s[start] = "-"
        first    == IF signed THEN start + 1 ELSE start
        intEnd   == DigitsEnd(s, first)
        hasPoint == intEnd <= Len(s) /\ s[intEnd] = "."
        fracEnd  == IF hasPoint THEN DigitsEnd(s, intEnd + 1) ELSE intEnd
        digits   == (intEnd - first) + (IF hasPoint THEN fracEnd - intEnd - 1 ELSE 0)
        value    == 1000 * DigitsValue(s, first, intEnd)
                      + (IF hasPoint THEN Thousandths(s, intEnd + 1, fracEnd) ELSE 0)
    IN  IF first + 7 <= Len(s) /\ SubSeq(s, first, first + 7) = InfinityLiteral
        THEN IF negative THEN NegInfinity ELSE Infinity
        ELSE IF digits = 0 THEN NaN
        ELSE Num(IF negative THEN -value ELSE value)

\* fixed-point trigonometry: One is 1 in units of 1e-7
One == 10000000

\* degrees * (Math.PI / 180), thousandths of a degree to 1e-7 radian
toRadians(degrees) == Div(degrees * 174533, 1000)

\* Math.sin, Math.cos and Math.atan2 by their series, Math.sqrt exactly
\* (rounded down)
Sin(x) == x - Div(Div(x * x, One) * x, 6 * One)

\* the result of Cos is in units of 1e-6
Cos(x) ==
    LET m == Div(x, 10000)
    IN  1000000 - Div(m * m, 2) + Div(m * m * m * m, 24000000)

RECURSIVE SqrtBetween(_, _, _)
SqrtBetween(n, lo, hi) ==
    IF hi - lo <= 1 THEN lo
    ELSE LET mid == Div(lo + hi, 2)
         IN  IF mid * mid <= n THEN SqrtBetween(n, mid, hi)
                               ELSE SqrtBetween(n, lo, mid)

Sqrt(n) == SqrtBetween(n, 0, 46341)

\* Math.sqrt(1 - a) for a in units of 1e-14, in units of 1e-7
SqrtOneMinus(a) == One - Div(a, 2 * One)

\* Math.atan2(y, x) for 0 <= y and 0 < x, in units of 1e-7 radian
Atan2(y, x) ==
    LET t == y + Div(y * (One - x), x)
    IN  t - Div(Div(t * t, One) * t, 3 * One)

\* Earth's radius in kilometres
R == 6371

\* a variant that drops one factor Math.sin(dLon / 2) of the second term
calculateHaversineDistance_OneSine(lat1, lon1, lat2, lon2) ==
    IF ~(isFiniteNumber(lat1) /\ isFiniteNumber(lon1)
           /\ isFiniteNumber(lat2) /\ isFiniteNumber(lon2))
    THEN NaN
    ELSE LET dLat == toRadians(lat2.v - lat1.v)
             dLon == toRadians(lon2.v - lon1.v)
             cosines == Div(Div(Cos(toRadians(lat1.v)), 100)
                              * Div(Cos(toRadians(lat2.v)), 100), 100000)
             a == Sin(Div(dLat, 2)) * Sin(Div(dLat, 2))
                    + Div(cosines * Sin(Div(dLon, 2)), 1000)
             c == 2 * Atan2(Sqrt(a), SqrtOneMinus(a))
         IN  Num(Div(R * c, 10000))

calculateHaversineDistance(lat1, lon1, lat2, lon2) ==
    IF ~(isFiniteNumber(lat1) /\ isFiniteNumber(lon1)
           /\ isFiniteNumber(lat2) /\ isFiniteNumber(lon2))
    THEN NaN   \* Math.sin of an infinity or of NaN is NaN, and NaN propagates
    ELSE LET dLat == toRadians(lat2.v - lat1.v)
             dLon == toRadians(lon2.v - lon1.v)
             cosines == Div(Div(Cos(toRadians(lat1.v)), 100)
                              * Div(Cos(toRadians(lat2.v)), 100), 100000)
             a == Sin(Div(dLat, 2)) * Sin(Div(dLat, 2))
                    + Div(cosines * Sin(Div(dLon, 2)) * Sin(Div(dLon, 2)), 1000)
             c == 2 * Atan2(Sqrt(a), SqrtOneMinus(a))
         IN  Num(Div(R * c, 10000))

\* variants of the test of the loop body: one that ignores maxDistance, one
\* that lets a later candidate at the same distance win, and one written
\* with the negated comparisons, which NaN passes
Closer_AnyDistance(distance, maxDistance, minDistance) ==
    Lt(distance, minDistance)

Closer_LastWins(distance, maxDistance, minDistance) ==
    Leq(distance, maxDistance) /\ Leq(distance, minDistance)

Closer_NotFarther(distance, maxDistance, minDistance) ==
    ~Lt(maxDistance, distance) /\ ~Leq(minDistance, distance)

\* the test of the loop body: within maxDistance and closer than the
\* closest so far
Closer(distance, maxDistance, minDistance) ==
    Leq(distance, maxDistance) /\ Lt(distance, minDistance)

\* the for loop of findClosestReliefAction from element i on; the counters
\* validReliefActions and invalidCoordinates are never read
RECURSIVE Scan(_, _, _, _, _, _, _)
Scan(emergencyLat, emergencyLon, reliefActions, maxDistance, i, closestReliefAction, minDistance) ==
    IF i > Len(reliefActions)
    THEN IF closestReliefAction # NULL
         THEN [reliefAction |-> closestReliefAction, distance |-> minDistance]
         ELSE NULL
    ELSE LET reliefAction == reliefActions[i]
             reliefLat == parseFloat(reliefAction.LocationLat)
             reliefLon == parseFloat(reliefAction.LocationLong)
             distance == calculateHaversineDistance(emergencyLat, emergencyLon,
                                                    reliefLat, reliefLon)
         IN  IF isNaN(reliefLat) \/ isNaN(reliefLon)
             THEN Scan(emergencyLat, emergencyLon, reliefActions, maxDistance,
                       i + 1, closestReliefAction, minDistance)
             ELSE IF Closer(distance, maxDistance, minDistance)
             THEN Scan(emergencyLat, emergencyLon, reliefActions, maxDistance,
                       i + 1, reliefAction, distance)
             ELSE Scan(emergencyLat, emergencyLon, reliefActions, maxDistance,
                       i + 1, closestReliefAction, minDistance)

findClosestReliefAction(emergencyLat, emergencyLon, reliefActions, maxDistance) ==
    Scan(emergencyLat, emergencyLon, reliefActions, maxDistance, 1, NULL, Infinity)

\* the default of the parameter maxDistance: 1 kilometre
DefaultMaxDistance == 1000

\* coordinate strings of relief actions: the emergency's own latitude,
\* 0.001 degree (110 m) north and south of it, 0.01 degree (1.1 km) north,
\* and strings that are no finite number
LatStrings ==
    { <<"1", "0">>,
      <<"1", "0", ".", "0", "0", "1">>,
      <<"9", ".", "9", "9", "9">>,
      <<" ", "1", "0", ".", "0", "1">>,
      <<>>,
      InfinityLiteral }

LongStrings ==
    { <<"1", "2", "3">>,
      <<"1", "2", "3", ".", "0", "0", "1">>,
      <<"e", "a", "s", "t">> }

\* arrays of relief actions; DonationID, the key of the record, is its
\* position
ReliefActionArrays ==
    UNION { [1..n -> LatStrings \X LongStrings] : n \in 0..MaxCandidates }

GeoReliefActions(coords) ==
    [i \in 1..Len(coords) |->
        [DonationID |-> i, LocationLat |-> coords[i][1], LocationLong |-> coords[i][2]]]

MaxDistances == {DefaultMaxDistance, 110}

\* the calls of findClosestReliefAction the model follows
SearchCalls ==
    { [emergencyLat |-> Num(10000), emergencyLon |-> Num(123000),
       reliefActions |-> GeoReliefActions(coords), maxDistance |-> Num(d),
       returned |-> FALSE, result |-> NULL]
        : coords \in ReliefActionArrays, d \in MaxDistances }

Latitudes == {9999, 10000, 10010, 10100}
Longitudes == {123000, 123001, 123010}

\* the calls of calculateHaversineDistance the model follows
MeasureCalls ==
    { [lat1 |-> Num(p[1]), lon1 |-> Num(p[2]), lat2 |-> Num(q[1]), lon2 |-> Num(q[2]),
       returned |-> FALSE, result |-> NaN]
        : p \in Latitudes \X Longitudes, q \in Latitudes \X Longitudes }

\* both routes as their modules load them, and one call of a function of
\* geospatial.ts about to be made
InitGeo ==
    /\ \/ search \in SearchCalls /\ measure = NULL
       \/ search = NULL /\ measure \in MeasureCalls
    /\ ReliefLoaded
    /\ reliefEnvSet = TRUE
    /\ cachedData = NULL
    /\ lastFetchTime = 0
    /\ lastSuccessfulFetchTime = 0
    /\ isRetryingUpstream = FALSE
    /\ clock = StartTime
    /\ timers = EmptyBag
    /\ blob = NULL
    /\ envSet = TRUE
    /\ inflight = EmptyBag
    /\ resp = NoResponse
    /\ retrying = EmptyBag
    /\ calls = 0

RoutesIdle ==
    UNCHANGED <<cachedData, lastFetchTime, lastSuccessfulFetchTime, isRetryingUpstream,
                clock, timers, blob, envSet, inflight, resp, retrying, calls, reliefVars>>

FindClosest ==
    /\ search # NULL
    /\ ~search.returned
    /\ search' = [search EXCEPT
                    !.returned = TRUE,
                    !.result = findClosestReliefAction(search.emergencyLat,
                                   search.emergencyLon, search.reliefActions,
                                   search.maxDistance)]
    /\ UNCHANGED measure
    /\ RoutesIdle

Measure ==
    /\ measure # NULL
    /\ ~measure.returned
    /\ measure' = [measure EXCEPT
                     !.returned = TRUE,
                     !.result = calculateHaversineDistance(measure.lat1, measure.lon1,
                                                           measure.lat2, measure.lon2)]
    /\ UNCHANGED search
    /\ RoutesIdle

NextGeo == FindClosest \/ Measure

SpecGeo == InitGeo /\ [][NextGeo]_vars

\* ==================================================================
\* Properties of the emergencies cache
\* ==================================================================
\* the freshness window the specification names (5 minutes)
FRESH_WINDOW == 5 * 60 * 1000

\* the elements B2 holds more copies of than B
Gained(B, B2) == {e \in BagToSet(B2) : CopiesIn(e, B2) > CopiesIn(e, B)}

\* the GET calls that leave their await, and the awaits reached, in a step
Left == Gained(inflight', inflight)
Reached == Gained(inflight, inflight')

\* a step in which GET is called: a call never ends a suspended GET; it
\* answers at once or suspends
GetCalled ==
    \/ BagCardinality(inflight') > BagCardinality(inflight)
    \/ resp' # NoResponse /\ inflight' = inflight

Answered == resp.body # NULL
Source(r) == IF "cacheSource" \in DOMAIN r.body THEN r.body.cacheSource ELSE ""
IsStale(r) == "stale" \in DOMAIN r.body /\ r.body.stale
Clean(e) == e.numberOfPeople <= 3000

\* C1: on a cache miss (no snapshot, or now - lastFetchTime >= FRESH_WINDOW)
\* get() attempts the upstream fetch first; a get() reads the durable store
\* only after its own upstream attempt failed, and never after it succeeded.
C1_UpstreamBeforeDurable ==
    [][ /\ (GetCalled /\ (cachedData = NULL \/ clock - lastFetchTime >= FRESH_WINDOW)) =>
            /\ resp' = NoResponse
            /\ Reached # {}
            /\ \A q \in Reached :
                /\ q.now = clock
                /\ \/ q.pc = "upstream"
                   \/ ~envSet /\ q.pc = "blob" /\ q.apiError = EnvNotSetMessage
        /\ \A q \in Reached : (q.pc = "blob" /\ envSet) =>
                /\ q.apiError # ""
                /\ \E p \in Left : p.pc = "upstream" /\ p.now = q.now
        /\ \A p \in Left : p.pc = "upstream" =>
                Reached # {} /\ \A q \in Reached : q.pc \in {"write", "blob"}
        /\ \A p \in Left : p.pc = "write" =>
                Reached = {} /\ resp'.body # NULL /\ resp'.up = "ok" /\ resp'.dur = "none"
        /\ resp'.dur # "none" => resp'.up = "fail"
      ]_vars

\* a get() that missed on an expired snapshot reads the blob after its
\* upstream fetch answered with an error status
C1_Witness ==
    /\ cachedData # NULL
    /\ \E q \in BagToSet(inflight) :
        /\ q.pc = "blob"
        /\ q.apiError = "API responded with status: 500"
        /\ q.now - lastFetchTime >= FRESH_WINDOW

C3_UpstreamSuccess ==
    [][ /\ \A p \in Left : \A n \in Reached : (p.pc = "upstream" /\ n.pc = "write") =>
            /\ cachedData' = [success |-> n.data.success, count |-> n.data.count,
                              data |-> n.data.data]
            /\ \E o \in UpstreamOutcomes :
                /\ o.kind = "body"
                /\ cachedData'.data = SelectSeq(o.body.data, Clean)
            /\ lastFetchTime' = p.now
            /\ lastSuccessfulFetchTime' = lastFetchTime'
        /\ \A p \in Left : p.pc = "write" =>
            /\ blob' \in {blob, [success |-> p.data.success, isArray |-> TRUE,
                                 count |-> p.data.count, data |-> p.data.data]}
            /\ resp'.body # NULL
            /\ Source(resp') = "api"
            /\ ~IsStale(resp')
            /\ resp'.body.data = p.data.data
            /\ resp'.body.count = p.data.count
      ]_vars

\* a get() answers with the fetched records, which are now the snapshot and the blob
C3_Witness ==
    /\ Answered
    /\ Source(resp) = "api"
    /\ resp.body.data # <<>>
    /\ cachedData # NULL /\ cachedData.data = resp.body.data
    /\ blob.data = resp.body.data


\* C4: when get()'s upstream attempt failed and its durable read succeeds,
\* the snapshot becomes the (filtered) durable collection, lastFetchTime is
\* set to the get()'s now, lastSuccessfulFetchTime stays as it is, one retry
\* timer is scheduled RETRY_INTERVAL ahead, and the response has source
\* blob-fallback and no stale flag.
C4_DurableFallback ==
    [][ \A p \in Left : (p.pc = "blob" /\ resp'.dur = "ok") =>
            /\ resp'.up = "fail"
            /\ cachedData' = [success |-> resp'.body.success, count |-> resp'.body.count,
                              data |-> resp'.body.data]
            /\ cachedData'.data = SelectSeq(blob.data, Clean)
            /\ lastFetchTime' = p.now
            /\ lastSuccessfulFetchTime' = lastSuccessfulFetchTime
            /\ timers' = timers (+) SetToBag({clock + 5 * 60 * 1000})
            /\ Source(resp') = "blob-fallback"
            /\ ~IsStale(resp')
      ]_vars

\* a get() answers from the blob after an earlier upstream success, which
\* lastSuccessfulFetchTime still records
C4_Witness ==
    /\ Answered
    /\ Source(resp) = "blob-fallback"
    /\ resp.up = "fail" /\ resp.dur = "ok"
    /\ lastSuccessfulFetchTime >= StartTime
    /\ lastFetchTime > lastSuccessfulFetchTime

\* C5: when get()'s upstream attempt and durable read both failed and there
\* is a snapshot, get() returns the snapshot's data with stale = true and
\* source memory-stale, and leaves the snapshot and both timestamps unchanged.
C5_StaleMemory ==
    [][ \A p \in Left : (p.pc = "blob" /\ resp'.dur = "fail" /\ cachedData # NULL) =>
            /\ resp'.up = "fail"
            /\ resp'.body.data = cachedData.data
            /\ resp'.body.count = cachedData.count
            /\ IsStale(resp')
            /\ Source(resp') = "memory-stale"
            /\ UNCHANGED <<cachedData, lastFetchTime, lastSuccessfulFetchTime>>
      ]_vars

\* a get() serves the records of an expired snapshot as stale
C5_Witness ==
    /\ Answered
    /\ Source(resp) = "memory-stale"
    /\ resp.body.data # <<>>
    /\ clock - lastFetchTime >= FRESH_WINDOW

\* the messages of the errors fetchFromUpstreamAPI throws
UpstreamErrorMessages ==
    {"The operation was aborted due to timeout", "API responded with status: 500",
     "Invalid API response structure", "VICTIM_REPORTS_API environment variable is not set"}

\* C6: get() answers with the error envelope (status 500, carrying the
\* upstream error message and the durable-store error message) exactly when
\* its upstream attempt failed, its durable read failed and there is no
\* snapshot; every other answer carries data and no underlying error, and
\* the failing get() leaves the snapshot and both timestamps unchanged.
C6_NoDataError ==
    [][ resp' # NoResponse =>
            /\ (resp'.body.status = 500) <=>
                    (resp'.up = "fail" /\ resp'.dur = "fail" /\ cachedData = NULL)
            /\ resp'.body.status = 500 =>
                    /\ "data" \notin DOMAIN resp'.body
                    /\ \E p \in Left :
                        /\ p.pc = "blob"
                        /\ p.apiError \in UpstreamErrorMessages
                        /\ resp'.body.details.apiError = p.apiError
                    /\ resp'.body.details.blobError =
                            "Failed to load emergency data from blob storage"
                    /\ UNCHANGED <<cachedData, lastFetchTime, lastSuccessfulFetchTime>>
            /\ resp'.body.status # 500 =>
                    /\ resp'.body.status = 200
                    /\ "data" \in DOMAIN resp'.body
                    /\ "details" \notin DOMAIN resp'.body
      ]_vars

\* a cold get() fails with both causes after upstream sent a malformed body
C6_Witness ==
    /\ Answered
    /\ resp.body.status = 500
    /\ resp.body.details.apiError = "Invalid API response structure"
    /\ cachedData = NULL

\* the timers a step takes off the timer list
Fired == Gained(timers', timers)

\* C7: at most one retryUpstreamAPI is between setting and clearing
\* isRetryingUpstream at any time, whatever the interleaving of retry
\* triggers; a trigger that finds the flag set does nothing, one that finds
\* it clear starts the one background fetch.
C7_SingleFlight ==
    /\ [](/\ BagCardinality(retrying) <= 1
          /\ retrying # EmptyBag => isRetryingUpstream)
    /\ [][ /\ (Fired # {} /\ isRetryingUpstream) =>
                /\ retrying' = retrying
                /\ isRetryingUpstream'
                /\ BagCardinality(timers') = BagCardinality(timers) - 1
                /\ UNCHANGED <<cachedData, lastFetchTime, lastSuccessfulFetchTime, blob>>
           /\ (Fired # {} /\ ~isRetryingUpstream /\ envSet) =>
                /\ isRetryingUpstream'
                /\ BagCardinality(retrying') = 1
         ]_vars

\* a second retry timer is due while a retry is in flight
C7_Witness ==
    /\ isRetryingUpstream
    /\ retrying # EmptyBag
    /\ \E t \in BagToSet(timers) : t <= clock

\* C8: the retry timers scheduled and not yet fired plus the
\* retryUpstreamAPI executions in flight never number more than one.
C8_OneRetryLoop == TimerCount + BagCardinality(retrying) <= 1

\* the retries that leave their await, and the awaits reached, in a step
RetryLeft == Gained(retrying', retrying)
RetryReached == Gained(retrying, retrying')

\* C9: a retryUpstreamAPI that starts with the flag clear sets it; on
\* upstream success it stores the fetched data as the snapshot and sets both
\* timestamps to now, hands the data to the durable write, then clears the
\* flag and schedules no retry; on upstream failure it clears the flag,
\* leaves snapshot and timestamps unchanged and schedules exactly one retry
\* RETRY_INTERVAL ahead.
C9_RetryOutcome ==
    [][ /\ \A y \in RetryReached : y.pc = "fetch" =>
                ~isRetryingUpstream /\ isRetryingUpstream' /\ Fired # {}
        /\ \A x \in RetryLeft : \A y \in RetryReached : (x.pc = "fetch" /\ y.pc = "write") =>
                /\ cachedData' = [success |-> y.data.success, count |-> y.data.count,
                                  data |-> y.data.data]
                /\ lastFetchTime' = clock
                /\ lastSuccessfulFetchTime' = lastFetchTime'
                /\ isRetryingUpstream'
                /\ timers' = timers
        /\ \A x \in RetryLeft : x.pc = "write" =>
                /\ RetryReached = {}
                /\ blob' \in {blob, [success |-> x.data.success, isArray |-> TRUE,
                                     count |-> x.data.count, data |-> x.data.data]}
                /\ ~isRetryingUpstream'
                /\ timers' = timers
                /\ UNCHANGED <<cachedData, lastFetchTime, lastSuccessfulFetchTime>>
        /\ \A x \in RetryLeft : (x.pc = "fetch" /\ RetryReached = {}) =>
                /\ ~isRetryingUpstream'
                /\ timers' = timers (+) SetToBag({clock + 5 * 60 * 1000})
                /\ UNCHANGED <<cachedData, lastFetchTime, lastSuccessfulFetchTime, blob>>
        /\ (Fired # {} /\ ~isRetryingUpstream /\ ~envSet) =>
                /\ ~isRetryingUpstream'
                /\ BagCardinality(timers') = BagCardinality(timers)
                /\ BagIn(clock + 5 * 60 * 1000, timers')
                /\ UNCHANGED <<cachedData, lastFetchTime, lastSuccessfulFetchTime, blob>>
      ]_vars

\* a retry has replaced the snapshot and awaits the durable write
C9_Witness ==
    /\ isRetryingUpstream
    /\ \E x \in BagToSet(retrying) :
        /\ x.pc = "write"
        /\ cachedData.data = x.data.data
    /\ lastFetchTime = clock
    /\ lastSuccessfulFetchTime = clock
    /\ clock > StartTime

\* a retry failed and its successor timer is the only thing pending
C9_WitnessFailure ==
    /\ envSet
    /\ ~isRetryingUpstream
    /\ retrying = EmptyBag
    /\ inflight = EmptyBag
    /\ resp = NoResponse
    /\ timers = SetToBag({clock + 5 * 60 * 1000})
    /\ clock > lastFetchTime

AllClean(d) == \A i \in 1..Len(d) : d[i].numberOfPeople <= 3000

\* C10: no record with numberOfPeople > 3000 is ever in the snapshot, in a
\* collection handed to the durable write, or in a response of get(),
\* whatever upstream or the blob contained.
C10_NoContamination ==
    /\ cachedData # NULL => AllClean(cachedData.data)
    /\ \A q \in BagToSet(inflight) : q.pc = "write" => AllClean(q.data.data)
    /\ \A x \in BagToSet(retrying) : x.pc = "write" => AllClean(x.data.data)
    /\ (Answered /\ "data" \in DOMAIN resp.body) => AllClean(resp.body.data)

\* a get() answers from a blob that holds a record above 3000
C10_Witness ==
    /\ Answered
    /\ Source(resp) = "blob-fallback"
    /\ \E i \in 1..Len(blob.data) : blob.data[i].numberOfPeople > 3000
    /\ cachedData.data = resp.body.data

\* C11: whenever there is a snapshot its count is the length of its record
\* list, and so are count and data of every response that carries data,
\* whatever count the upstream or blob payload reported.
C11_CountIsLength ==
    /\ cachedData # NULL => cachedData.count = Len(cachedData.data)
    /\ (Answered /\ "data" \in DOMAIN resp.body) => resp.body.count = Len(resp.body.data)

\* a get() answers from a blob whose count is not the number of records
\* the filter lets through
C11_Witness ==
    /\ Answered
    /\ Source(resp) = "blob-fallback"
    /\ resp.dur = "ok"
    /\ blob.count # Len(SelectSeq(blob.data, Clean))
    /\ cachedData.data = SelectSeq(blob.data, Clean)

\* C12: a failed write to the blob store never propagates.  When the write
\* fails after the upstream fetch of a get() succeeded, the get() still
\* answers with the upstream data and the snapshot and timestamps stay as
\* the fetch set them; when it fails inside a retry, the snapshot stays,
\* isRetryingUpstream is cleared and the retry ends without an error.
C12_WriteFailureSwallowed ==
    [][ /\ \A p \in Left : (p.pc = "write" /\ blob' # BlobBody(p.data)) =>
            /\ blob' = blob
            /\ Reached = {}
            /\ resp'.body # NULL
            /\ resp'.body.status = 200
            /\ Source(resp') = "api"
            /\ resp'.body.data = p.data.data
            /\ resp'.body.count = p.data.count
            /\ "error" \notin DOMAIN resp'.body
            /\ resp'.up = "ok"
            /\ UNCHANGED <<cachedData, lastFetchTime, lastSuccessfulFetchTime>>
        /\ \A x \in RetryLeft : (x.pc = "write" /\ blob' # BlobBody(x.data)) =>
            /\ blob' = blob
            /\ RetryReached = {}
            /\ ~isRetryingUpstream'
            /\ timers' = timers
            /\ resp' = NoResponse
            /\ UNCHANGED <<cachedData, lastFetchTime, lastSuccessfulFetchTime>>
      ]_vars

\* a get() answers with the upstream records it stored as the snapshot
\* although its write failed: the blob still holds the older content
C12_Witness ==
    /\ Answered
    /\ Source(resp) = "api"
    /\ resp.up = "ok"
    /\ blob # BlobBody(cachedData)
    /\ cachedData.data = resp.body.data
    /\ lastFetchTime = lastSuccessfulFetchTime
    /\ lastFetchTime >= StartTime

\* the steps by which the suspended get() q goes on
Advance(q) ==
    \/ GET_UpstreamOk(q)
    \/ GET_UpstreamFail(q)
    \/ GET_WriteDone(q)
    \/ GET_BlobOk(q)
    \/ GET_BlobFail(q)

\* C13: a get() that hits fresh memory while now - lastSuccessfulFetchTime
\* > RETRY_INTERVAL and no retry is in flight schedules a background retry
\* and answers in the same step, without starting or awaiting the retry; no
\* get() ever waits on a retry: a suspended get() awaits only its own
\* upstream fetch, blob read or blob write and can go on whatever the state
\* of the retry.
C13_RetryInBackground ==
    /\ [][ (/\ GetCalled
            /\ cachedData # NULL
            /\ clock - lastFetchTime < FRESH_WINDOW
            /\ clock - lastSuccessfulFetchTime > 5 * 60 * 1000
            /\ ~isRetryingUpstream) =>
                /\ timers' = timers (+) SetToBag({clock + 1000})
                /\ resp'.body # NULL
                /\ Source(resp') = "memory"
                /\ inflight' = inflight
                /\ retrying' = retrying
                /\ ~isRetryingUpstream'
         ]_vars
    /\ [](\A q \in BagToSet(inflight) :
            /\ q.pc \in {"upstream", "blob", "write"}
            /\ ENABLED Advance(q))

\* a get() answers from fresh memory and leaves a retry timer one second
\* ahead, the last upstream success being more than RETRY_INTERVAL ago
C13_Witness ==
    /\ Answered
    /\ Source(resp) = "memory"
    /\ clock - lastFetchTime < FRESH_WINDOW
    /\ clock - lastSuccessfulFetchTime > 5 * 60 * 1000
    /\ BagIn(clock + 1000, timers)
    /\ ~isRetryingUpstream
    /\ retrying = EmptyBag

\* C14 as the scenario words it: a get() called with a snapshot whose
\* lastFetchTime is 5 minutes old and a lastSuccessfulFetchTime 6 minutes
\* old, no retry in flight, answers from memory at once, makes no upstream
\* attempt and schedules exactly one retry.
C14_FiveMinutesOld ==
    [][ (/\ GetCalled
         /\ cachedData # NULL
         /\ clock - lastFetchTime = 5 * 60 * 1000
         /\ clock - lastSuccessfulFetchTime = 6 * 60 * 1000
         /\ ~isRetryingUpstream) =>
            /\ resp'.body # NULL
            /\ Source(resp') = "memory"
            /\ resp'.body.data = cachedData.data
            /\ inflight' = inflight
            /\ timers' = timers (+) SetToBag({clock + 1000})
      ]_vars

\* C14: a get() called with a snapshot whose lastFetchTime is less than 5
\* minutes old and a lastSuccessfulFetchTime 6 minutes old, no retry in
\* flight, answers from memory at once, makes no upstream attempt and
\* schedules exactly one retry.
C14_UnderFiveMinutesOld ==
    [][ (/\ GetCalled
         /\ cachedData # NULL
         /\ clock - lastFetchTime < 5 * 60 * 1000
         /\ clock - lastSuccessfulFetchTime = 6 * 60 * 1000
         /\ ~isRetryingUpstream) =>
            /\ resp'.body # NULL
            /\ Source(resp') = "memory"
            /\ resp'.body.data = cachedData.data
            /\ resp'.up = "none" /\ resp'.dur = "none"
            /\ inflight' = inflight
            /\ timers' = timers (+) SetToBag({clock + 1000})
      ]_vars

\* a get() answers from a snapshot one minute old, six minutes after the
\* last upstream success, and leaves a retry timer one second ahead
C14_Witness ==
    /\ Answered
    /\ Source(resp) = "memory"
    /\ clock - lastFetchTime = 1 * 60 * 1000
    /\ clock - lastSuccessfulFetchTime = 6 * 60 * 1000
    /\ ~isRetryingUpstream
    /\ BagIn(clock + 1000, timers)

\* C15: no operation blocks for ever: every network call of get() and of
\* retryUpstreamAPI carries a timeout, so every get() that is waiting
\* eventually returns and a retry that has set isRetryingUpstream
\* eventually clears it, even if a remote endpoint never answers.
C15_NoOperationBlocks ==
    /\ (inflight # EmptyBag) ~> (inflight = EmptyBag)
    /\ isRetryingUpstream ~> ~isRetryingUpstream

\* C16: a missing upstream URL is fatal at first use: a get() that needs
\* upstream while VICTIM_REPORTS_API is not set fails; it is not served
\* from the blob or from stale memory as if upstream had been unreachable.
C16_UnsetUrlIsFatal ==
    (Answered /\ ~envSet /\ resp.up # "none") =>
        /\ resp.body.status = 500
        /\ "data" \notin DOMAIN resp.body

\* a response of get() that carries data
DataBearing == Answered /\ "data" \in DOMAIN resp.body

\* C17: in every response of get() that carries data, cached is false
\* exactly when the source is upstream (api); it is true for memory,
\* blob-fallback and memory-stale.
C17_CachedUnlessUpstream ==
    DataBearing => ((resp.body.cached = FALSE) <=> (Source(resp) = "api"))

\* C18: in every response of get() that carries data, the stale flag is
\* present and true exactly when the source is memory-stale, and
\* cacheSource is one of the four sources and names the path the data of
\* that call came by: memory (no fetch, no blob read), api (upstream fetch
\* succeeded), blob-fallback (upstream failed, blob read succeeded),
\* memory-stale (both failed).
C18_SourceNamesPath ==
    DataBearing =>
        /\ IsStale(resp) <=> (Source(resp) = "memory-stale")
        /\ ("stale" \in DOMAIN resp.body) <=> (Source(resp) = "memory-stale")
        /\ Source(resp) \in {"memory", "api", "blob-fallback", "memory-stale"}
        /\ (Source(resp) = "memory") <=> (resp.up = "none" /\ resp.dur = "none")
        /\ (Source(resp) = "api") <=> (resp.up = "ok" /\ resp.dur = "none")
        /\ (Source(resp) = "blob-fallback") <=> (resp.up = "fail" /\ resp.dur = "ok")
        /\ (Source(resp) = "memory-stale") <=> (resp.up = "fail" /\ resp.dur = "fail")
        /\ Source(resp) \in {"memory", "memory-stale"} =>
                cachedData # NULL /\ resp.body.data = cachedData.data

\* a get() whose upstream fetch and blob read both failed answers with the
\* stale flag and the source memory-stale
C18_Witness ==
    /\ DataBearing
    /\ resp.up = "fail" /\ resp.dur = "fail"
    /\ resp.body.stale = TRUE
    /\ resp.body.cacheSource = "memory-stale"

\* C19: every response of get() that carries data carries lastUpdated and
\* nextUpdate, lastUpdated being the lastFetchTime that belongs to the
\* returned data (the snapshot's for memory and memory-stale, the one this
\* get() stamped for api and blob-fallback) and nextUpdate = lastUpdated +
\* FRESH_WINDOW, on all four sources and also when a retry completes while
\* the get() is in progress.
C19_Timestamps ==
    [][ (resp'.body # NULL /\ "data" \in DOMAIN resp'.body) =>
            /\ "lastUpdated" \in DOMAIN resp'.body
            /\ "nextUpdate" \in DOMAIN resp'.body
            /\ resp'.body.nextUpdate = resp'.body.lastUpdated + FRESH_WINDOW
            /\ Source(resp') \in {"memory", "memory-stale"} =>
                    resp'.body.lastUpdated = lastFetchTime
            /\ Source(resp') \in {"api", "blob-fallback"} =>
                    \E p \in Left : resp'.body.lastUpdated = p.now
      ]_vars

\* C20: the Cache-Control max-age of a non-degraded response is the
\* freshness window of the cache behind it: 5 minutes for the emergencies
\* route, 10 minutes for the relief actions route.
C20_MaxAgeIsWindow ==
    /\ (Answered /\ resp.body.status = 200 /\ ~IsStale(resp)) =>
            /\ resp.body.maxAge * 1000 = 5 * 60 * 1000
            /\ resp.body.maxAge * 1000 = CACHE_DURATION
    /\ Relief_MaxAgeFresh * 1000 = 10 * 60 * 1000
    /\ Relief_MaxAgeFresh * 1000 = Relief_CACHE_DURATION

\* ==================================================================
\* Properties of the relief actions cache
\* ==================================================================
\* a step in which the relief GET is called
ReliefCalled ==
    \/ BagCardinality(reliefInflight') > BagCardinality(reliefInflight)
    \/ reliefResp' # NoResponse /\ reliefInflight' = reliefInflight

\* a step of the relief actions route, a step of the emergencies route
ReliefStep == reliefInflight' # reliefInflight \/ reliefResp' # NoResponse
EmergenciesStep ==
    \/ inflight' # inflight
    \/ resp' # NoResponse
    \/ retrying' # retrying
    \/ timers' # timers

\* C21: the relief actions cache is its own instance with a 10-minute
\* window: a relief get() less than 10 minutes after the relief
\* lastFetchTime answers from memory without an upstream call, a later one
\* attempts upstream; no step of the emergencies route (get, retry) changes
\* the relief snapshot or the relief lastFetchTime, and no step of a relief
\* get() changes the emergencies snapshot, timestamps or isRetryingUpstream.
C21_IndependentCaches ==
    [][ /\ (ReliefCalled /\ cachedReliefData # NULL
                /\ clock - reliefLastFetchTime < 10 * 60 * 1000) =>
            /\ reliefInflight' = reliefInflight
            /\ reliefResp'.body # NULL
            /\ Source(reliefResp') = "memory"
            /\ reliefResp'.up = "none"
            /\ reliefResp'.body.data = cachedReliefData.data
        /\ (ReliefCalled /\ (cachedReliefData = NULL
                \/ clock - reliefLastFetchTime >= 10 * 60 * 1000)) =>
            \/ /\ reliefResp' = NoResponse
               /\ reliefInflight' = reliefInflight (+) SetToBag({[now |-> clock]})
            \/ ~reliefEnvSet /\ reliefResp'.up = "fail"
        /\ EmergenciesStep => UNCHANGED <<cachedReliefData, reliefLastFetchTime>>
        /\ ReliefStep => UNCHANGED <<cachedData, lastFetchTime, lastSuccessfulFetchTime,
                                     isRetryingUpstream>>
      ]_vars

\* a relief get() that missed on a snapshot ten minutes old answers with new
\* upstream data while the emergencies route holds a snapshot of its own
C21_Witness ==
    /\ reliefResp.body # NULL
    /\ Source(reliefResp) = "api"
    /\ reliefLastFetchTime >= StartTime
    /\ cachedReliefData.data = reliefResp.body.data
    /\ cachedData # NULL
    /\ lastFetchTime # reliefLastFetchTime

\* a step in which a relief get() ends in its catch block: its upstream
\* fetch failed, or could not be made
ReliefFailed == reliefResp'.up = "fail"

\* C34: when the relief upstream fetch fails, the relief get() answers with
\* the existing relief snapshot, stale and labelled memory-stale, and with
\* the error envelope exactly when there is no relief snapshot; it leaves
\* the relief snapshot and the relief lastFetchTime as they were, reads no
\* blob and schedules no retry.
C34_ReliefFailure ==
    [][ ReliefFailed =>
            /\ cachedReliefData # NULL =>
                  /\ reliefResp'.body.status = 200
                  /\ IsStale(reliefResp')
                  /\ Source(reliefResp') = "memory-stale"
                  /\ reliefResp'.body.data = cachedReliefData.data
                  /\ reliefResp'.body.count = cachedReliefData.count
            /\ (reliefResp'.body.status = 500) <=> (cachedReliefData = NULL)
            /\ reliefResp'.body.status = 500 => "data" \notin DOMAIN reliefResp'.body
            /\ UNCHANGED <<cachedReliefData, reliefLastFetchTime>>
            /\ reliefResp'.dur = "none"
            /\ UNCHANGED <<blob, timers, retrying, isRetryingUpstream>>
      ]_vars

\* a relief get() whose upstream fetch failed after the snapshot had expired
\* answered with the snapshot, marked stale
C34_Witness ==
    /\ reliefResp.up = "fail"
    /\ IsStale(reliefResp)
    /\ reliefEnvSet
    /\ clock - reliefLastFetchTime >= Relief_CACHE_DURATION
    /\ reliefResp.body.data = cachedReliefData.data

\* C35: whenever the relief snapshot is set, its count is the length of its
\* record list, whatever count upstream reported.
C35_ReliefCountIsLength ==
    cachedReliefData # NULL => cachedReliefData.count = Len(cachedReliefData.data)

\* ==================================================================
\* Properties of the geospatial functions
\* ==================================================================
\* both coordinate strings of a relief action parse as finite numbers
ValidCoordinates(reliefAction) ==
    /\ isFiniteNumber(parseFloat(reliefAction.LocationLat))
    /\ isFiniteNumber(parseFloat(reliefAction.LocationLong))

\* the distance from the emergency of a call to a relief action
DistanceTo(call, reliefAction) ==
    calculateHaversineDistance(call.emergencyLat, call.emergencyLon,
                               parseFloat(reliefAction.LocationLat),
                               parseFloat(reliefAction.LocationLong))

\* the positions of the relief actions of a call that have valid coordinates
\* and lie within its maxDistance
InRange(call) ==
    { i \in DOMAIN call.reliefActions :
        /\ ValidCoordinates(call.reliefActions[i])
        /\ Leq(DistanceTo(call, call.reliefActions[i]), call.maxDistance) }

Searched == search # NULL /\ search.returned

\* C22: findClosestReliefAction never returns a relief action farther than
\* maxDistance (a distance equal to maxDistance is in range), and returns
\* null when the array is empty, when every relief action has invalid
\* coordinates and when none is in range.
C22_NeverBeyondRadius ==
    Searched =>
        /\ search.result # NULL =>
              /\ \E i \in DOMAIN search.reliefActions :
                    /\ search.result.reliefAction = search.reliefActions[i]
                    /\ Leq(DistanceTo(search, search.reliefActions[i]), search.maxDistance)
              /\ Leq(search.result.distance, search.maxDistance)
        /\ InRange(search) = {} => search.result = NULL

\* a relief action exactly maxDistance away was returned although a valid
\* one farther away was in the array
C22_Witness ==
    /\ Searched
    /\ search.result # NULL
    /\ search.result.distance = search.maxDistance
    /\ \E i \in DOMAIN search.reliefActions :
          /\ ValidCoordinates(search.reliefActions[i])
          /\ Lt(search.maxDistance, DistanceTo(search, search.reliefActions[i]))

\* C23: when some valid relief action is in range, the result is the one at
\* the least distance, the first of them in array order when several are
\* equally close, and the distance returned is that relief action's.
C23_ClosestFirstWins ==
    Searched /\ InRange(search) # {} =>
        \E best \in InRange(search) :
            /\ \A j \in InRange(search) :
                  /\ Leq(DistanceTo(search, search.reliefActions[best]),
                         DistanceTo(search, search.reliefActions[j]))
                  /\ DistanceTo(search, search.reliefActions[j])
                        = DistanceTo(search, search.reliefActions[best]) => best <= j
            /\ search.result =
                  [reliefAction |-> search.reliefActions[best],
                   distance |-> DistanceTo(search, search.reliefActions[best])]

\* two different relief actions in range were equally close and the earlier
\* one was returned
C23_Witness ==
    /\ Searched
    /\ \E i, j \in InRange(search) :
          /\ i < j
          /\ search.reliefActions[i].LocationLat # search.reliefActions[j].LocationLat
          /\ DistanceTo(search, search.reliefActions[i])
                = DistanceTo(search, search.reliefActions[j])
          /\ search.result # NULL
          /\ search.result.reliefAction = search.reliefActions[i]

\* C24: a relief action whose latitude or longitude string does not parse as
\* a finite number is never returned, and the result is the result for the
\* array with those relief actions removed.
C24_InvalidSkipped ==
    Searched =>
        /\ search.result # NULL => ValidCoordinates(search.result.reliefAction)
        /\ search.result =
              findClosestReliefAction(search.emergencyLat, search.emergencyLon,
                  SelectSeq(search.reliefActions, ValidCoordinates),
                  search.maxDistance)

\* a relief action whose latitude parses as Infinity, which isNaN lets
\* through, came before the relief action that was returned
C24_Witness ==
    /\ Searched
    /\ search.result # NULL
    /\ \E i, j \in DOMAIN search.reliefActions :
          /\ i < j
          /\ parseFloat(search.reliefActions[i].LocationLat) = Infinity
          /\ isFiniteNumber(parseFloat(search.reliefActions[i].LocationLong))
          /\ search.result.reliefAction = search.reliefActions[j]

Measured == measure # NULL /\ measure.returned

\* C25: the distance from a to b is the distance from b to a, and the
\* distance from a point to itself is 0.
C25_SymmetricAndZero ==
    Measured =>
        /\ measure.result = calculateHaversineDistance(measure.lat2, measure.lon2,
                                                        measure.lat1, measure.lon1)
        /\ measure.lat1 = measure.lat2 /\ measure.lon1 = measure.lon2
              => measure.result = Num(0)

\* the distance between two points that differ in latitude and longitude
\* was measured
C25_Witness ==
    /\ Measured
    /\ measure.lat1 # measure.lat2
    /\ measure.lon1 # measure.lon2
    /\ measure.result.v > 0

\* ==================================================================
\* Properties of the emergencies cache under overlapping fetches
\* ==================================================================
\* a step in which a GET or a retry stores what its fetch returned
GetStores(q) ==
    /\ q \in Left
    /\ \/ q.pc = "upstream" /\ \E n \in Reached : n.pc = "write"
       \/ q.pc = "blob" /\ Source(resp)' = "blob-fallback"

RetryStores(x) ==
    /\ x \in RetryLeft
    /\ x.pc = "fetch"
    /\ \E y \in RetryReached : y.pc = "write"

\* C26: the snapshot is never replaced by the result of a fetch that began
\* before the fetch whose result is the current snapshot.  Two cases can be
\* told from the state.  A snapshot whose lastFetchTime is later than the
\* start of a running retry was stored by a GET called after that start (no
\* other retry runs meanwhile): the retry must not replace it.  A snapshot
\* whose two timestamps differ was stored from the blob by a GET called at
\* lastFetchTime: the upstream result of a GET called earlier must not
\* replace it.
C26_NewerSnapshotKept ==
    [][ /\ \A x \in BagToSet(retrying) : RetryStores(x) => lastFetchTime <= x.since
        /\ \A q \in BagToSet(inflight) :
              (GetStores(q) /\ q.pc = "upstream"
                 /\ lastFetchTime # lastSuccessfulFetchTime) => lastFetchTime <= q.now
      ]_vars

\* C27: lastFetchTime never decreases.
C27_FetchTimeMonotone ==
    [][lastFetchTime' >= lastFetchTime]_vars

\* C28: lastSuccessfulFetchTime <= lastFetchTime in every reachable state.
C28_SuccessNotAfterFetch ==
    lastSuccessfulFetchTime <= lastFetchTime

\* C29: when a GET stores a snapshot, the lastFetchTime it records is the
\* time of the store, so that the snapshot is fresh for a GET called at
\* once, however long the fetch took.
C29_StampedWhenStored ==
    [][ \A q \in BagToSet(inflight) : GetStores(q) =>
            /\ lastFetchTime' = clock
            /\ IsFresh(clock)'
      ]_vars

\* a get() has just answered with blob-fallback or memory-stale data
Degraded == Answered /\ Source(resp) \in {"blob-fallback", "memory-stale"}

\* the values lastSuccessfulFetchTime takes
Stamps == {0} \cup {StartTime + k * TickMs : k \in 0..MaxTicks}

\* the model has followed the clock to its last step while a retry timer is
\* pending or a retry is running: what the retry loop does next is not seen
RetryOutlivesModel ==
    /\ clock = StartTime + MaxTicks * TickMs
    /\ timers # EmptyBag \/ retrying # EmptyBag

\* C30: once get() has served blob-fallback or memory-stale data, the
\* background retry eventually stores upstream data and lastSuccessfulFetchTime
\* advances, without any further get(), provided timers fire and upstream
\* answers from some time on (a retry that fails schedules its successor, so
\* that the loop is still pending when the model's clock ends).
C30_SelfHealing ==
    \A s \in Stamps :
        [](Degraded /\ lastSuccessfulFetchTime = s
             => <>(lastSuccessfulFetchTime > s \/ RetryOutlivesModel))

\* C31: whenever get() answers with blob-fallback or memory-stale data, a
\* retry timer is pending or a retry is running at that moment.
C31_RetryBehindDegraded ==
    Degraded => (timers # EmptyBag \/ retrying # EmptyBag \/ isRetryingUpstream)

\* C32: a get() that misses and whose upstream fetch succeeds schedules no
\* retry: when the only get() called so far returns its upstream data, the
\* timer that line 174 sets, RetryDelay after the call began, is not pending.
C32_NoRetryAfterRefresh ==
    [][ \A q \in Left :
          (q.pc = "write" /\ calls = 1 /\ Source(resp)' = "api")
              => ~BagIn(q.now + RetryDelay, timers') ]_vars

\* C33: once cachedData is set it is never null again, and from then on no
\* get() answers with the 500 error.
C33_NeverColdAgain ==
    [][ cachedData # NULL =>
            /\ cachedData' # NULL
            /\ Answered' => resp'.body.status # 500 ]_vars

\* a get() whose upstream fetch and blob read both failed answered from the
\* snapshot instead of the error
C33_Witness ==
    /\ Answered
    /\ resp.up = "fail"
    /\ resp.dur = "fail"
    /\ resp.body.status = 200
    /\ cachedData # NULL

====
